---- MODULE Spec2Model ----
(***************************************************************************)
(* A model of lib/SILOptimizer/Mandatory/MandatoryInlining.cpp: the        *)
(* module driver MandatoryInlining::run, the recursive                     *)
(* runOnFunctionRecursively with its two inlining sets, the callee         *)
(* resolver getCalleeFunction, fixupReferenceCounts and the dead closure   *)
(* cleanup.                                                                *)
(*                                                                         *)
(* A function body is the flat list of its instructions in program order;  *)
(* a basic block is a maximal run ending in a terminator ("br", "ret").    *)
(* Visiting blocks in reverse order and the instructions of a block in     *)
(* reverse order is visiting the flat list backwards.                      *)
(***************************************************************************)
EXTENDS Integers, Sequences, FiniteSets, TLC

VARIABLES
    attr,      \* function -> its read-only flags (SILFunction predicates)
    body,      \* function -> instruction list (<<>>: a declaration)
    decl,      \* function -> the body loadFunction would materialise
    alive,     \* the functions still in the module
    calls0,    \* the call edges <<caller, callee>> of the module the pass started on
    doCleanup, \* ShouldCleanup
    pc,        \* position of MandatoryInlining::run
    fi,        \* index of the driver's loop over the module
    stack,     \* the active runOnFunctionRecursively frames, outermost first
    ret,       \* result of the runOnFunctionRecursively call that just returned
    full,      \* FullyInlinedSet
    diags,     \* the diagnostics reported so far, in order
    numInl,    \* NumMandatoryInlines
    splices,   \* log of the inlineFunction calls made
    pass,      \* 1: first run of the pass, 2: the pass run again on its output
    snap       \* the module and counter as the first run left them

vars == <<attr, body, decl, alive, calls0, doCleanup, pc, fi, stack, ret, full,
          diags, numInl, splices, pass, snap>>

(***************************************************************************)
(* Bounds of the model.                                                    *)
(***************************************************************************)
MaxCalls == 3
MaxCaptures == 2
MaxWrappers == 3

Funcs == {"A", "B", "C"}
ModOrder == <<"A", "B", "C">>
NoFn == "-"

(***************************************************************************)
(* Instructions.  id: the value the instruction defines; k: its kind;      *)
(* f: the function a function_ref (or a devirtualisable method) names;     *)
(* x: the operand (callee of an apply or partial_apply, source of a        *)
(* conversion, value reference-counted); a: further operands (captured     *)
(* arguments of a partial_apply, base of a mark_dependence); cv: the       *)
(* parameter convention of each captured argument; g: a flag whose meaning *)
(* depends on the kind; org: the function the instruction was written in.  *)
(***************************************************************************)
Ins(id, k, f, x, a, cv, g, org) ==
    [id |-> id, k |-> k, f |-> f, x |-> x, a |-> a, cv |-> cv, g |-> g, org |-> org]

Range(s) == {s[i] : i \in 1..Len(s)}

MaxId(B) ==
    IF B = <<>> THEN 0 ELSE CHOOSE m \in {B[i].id : i \in 1..Len(B)} :
        \A j \in 1..Len(B) : B[j].id <= m

NoIns == Ins(0, "none", NoFn, 0, <<>>, <<>>, FALSE, NoFn)

\* The instruction defining value v in B (none for a function argument, v = 0).
Def(B, v) ==
    IF \E i \in 1..Len(B) : B[i].id = v
    THEN B[CHOOSE i \in 1..Len(B) : B[i].id = v]
    ELSE NoIns

IndexOf(B, v) == CHOOSE i \in 1..Len(B) : B[i].id = v

\* The instructions of B using value v as an operand.
Users(B, v) == {i \in 1..Len(B) : B[i].x = v \/ v \in Range(B[i].a)}

\* B without the instructions at the positions in D.
RECURSIVE Without(_, _)
Without(B, D) ==
    IF B = <<>> THEN <<>>
    ELSE LET n == Len(B)
             front == Without(SubSeq(B, 1, n - 1), D)
         IN  IF n \in D THEN front ELSE Append(front, B[n])

InsertBefore(B, p, new) == SubSeq(B, 1, p - 1) \o new \o SubSeq(B, p, Len(B))

FunctionKinds == {"fref", "pai", "tttf", "cvt", "cvte", "md", "cmeth"}

\* The function the callee value v is built from, through whatever wraps it.
RECURSIVE RefOf(_, _)
RefOf(B, v) ==
    LET d == Def(B, v)
    IN  CASE d.k \in {"fref", "cmeth"} -> d.f
          [] d.k \in {"pai", "tttf", "cvt", "cvte", "md"} -> RefOf(B, d.x)
          [] OTHER -> NoFn

\* The call edges of a function with body B.
CallsOf(f, B) ==
    {<<f, RefOf(B, B[i].x)>> : i \in {j \in 1..Len(B) : B[j].k = "apply"}}
        \ {<<f, NoFn>>}

(***************************************************************************)
(* The flags of a function the pass reads.  tr: isTransparent; thunk:      *)
(* isThunk; deser: wasDeserializedCanonical; repr: getRepresentation; ser: *)
(* isSerialized; fragInl / fragRef: hasValidLinkageForFragileInline / Ref; *)
(* ext: isPossiblyUsedExternally; def: "body" (a definition), "lazy" (a    *)
(* declaration loadFunction can fill), "none" (one it cannot).  A          *)
(* serialized function has linkage valid for fragile inlining, and linkage *)
(* valid for fragile inlining is valid for fragile reference.              *)
(***************************************************************************)
Attr(tr, thunk, deser, repr, ser, fragInl, fragRef, ext, def) ==
    [tr |-> tr, thunk |-> thunk, deser |-> deser, repr |-> repr, ser |-> ser,
     fragInl |-> fragInl, fragRef |-> fragRef, ext |-> ext, def |-> def]

Plain     == Attr(FALSE, FALSE, FALSE, "Thin", FALSE, FALSE, TRUE, TRUE, "body")
Transp    == Attr(TRUE, FALSE, FALSE, "Thin", FALSE, FALSE, TRUE, FALSE, "body")
TranspExt == Attr(TRUE, FALSE, FALSE, "Thin", FALSE, FALSE, TRUE, TRUE, "body")
TranspThunk == Attr(TRUE, TRUE, FALSE, "Thin", FALSE, FALSE, TRUE, FALSE, "body")
TranspDeser == Attr(TRUE, FALSE, TRUE, "Thin", TRUE, TRUE, TRUE, FALSE, "body")
TranspObjC == Attr(TRUE, FALSE, FALSE, "ObjCMethod", FALSE, FALSE, TRUE, FALSE, "body")
TranspCFP == Attr(TRUE, FALSE, FALSE, "CFunctionPointer", FALSE, FALSE, TRUE, FALSE, "body")
TranspLazy == Attr(TRUE, FALSE, FALSE, "Thin", TRUE, TRUE, TRUE, TRUE, "lazy")
TranspNone == Attr(TRUE, FALSE, FALSE, "Thin", TRUE, TRUE, TRUE, TRUE, "none")
SerPlain  == Attr(FALSE, FALSE, FALSE, "Thin", TRUE, TRUE, TRUE, TRUE, "body")
SerTransp == Attr(TRUE, FALSE, FALSE, "Method", TRUE, TRUE, TRUE, TRUE, "body")
TranspPrivate == Attr(TRUE, FALSE, FALSE, "Thin", FALSE, FALSE, FALSE, FALSE, "body")

GraphProfiles == {Plain, Transp}
AllProfiles ==
    {Plain, Transp, TranspExt, TranspThunk, TranspDeser, TranspObjC, TranspCFP,
     TranspLazy, TranspNone, SerPlain, SerTransp, TranspPrivate}

(***************************************************************************)
(* Parameter conventions of captured arguments, and whether an argument of *)
(* that convention has an address type.                                    *)
(***************************************************************************)
Convs ==
    {"Direct_Owned", "Direct_Guaranteed", "Direct_Unowned",
     "Indirect_In", "Indirect_In_Guaranteed", "Indirect_InoutAliasable"}

IsAddressConv(c) ==
    c \in {"Indirect_In", "Indirect_In_Guaranteed", "Indirect_InoutAliasable"}

(***************************************************************************)
(* The call sites a body is built from.  An item is a call of function t   *)
(* through a callee value of shape sh; cv: the conventions of the captured *)
(* arguments of its partial_apply; g: the type of the closure (of the      *)
(* partial_apply or thin_to_thick_function) is callee guaranteed; inl:     *)
(* SILInliner::canInlineApplySite accepts the site.                        *)
(***************************************************************************)
Item(t, sh, cv, g, inl) == [t |-> t, sh |-> sh, cv |-> cv, g |-> g, inl |-> inl]

Direct(t) == Item(t, "direct", <<>>, FALSE, TRUE)

ClosureShapes ==
    {"pai", "pai_cvte", "pai_cvteX", "pai_md", "tttf", "cvt_tttf", "cvtX_tttf"}

(***************************************************************************)
(* A call of function t through a chain of wrappers: ch lists the kinds of *)
(* the instructions between the function_ref and the apply, the innermost  *)
(* first; every conversion of a chain is a no-op but for the noescape bit; *)
(* arg: the value of the chain the apply passes as an argument as well, 1  *)
(* the function_ref, 1 + i the i-th wrapper, 0 none.                       *)
(***************************************************************************)
WrapperKinds == {"cvt", "cvte", "md", "pai", "tttf"}

ChainItem(t, ch, g, arg) ==
    [t |-> t, sh |-> "chain", cv |-> <<>>, g |-> g, inl |-> TRUE, ch |-> ch,
     arg |-> arg]

\* The instructions of a chain item, defining the values b+1, b+2, ...
ExpandChain(it, b, org) ==
    LET n == Len(it.ch)
        fref == Ins(b + 1, "fref", it.t, 0, <<>>, <<>>, FALSE, org)
        wrap == [i \in 1..n |->
                    Ins(b + 1 + i, it.ch[i], NoFn, b + i, <<>>, <<>>,
                        CASE it.ch[i] \in {"cvt", "cvte"} -> TRUE
                          [] it.ch[i] \in {"pai", "tttf"} -> it.g
                          [] OTHER -> FALSE,
                        org)]
        args == IF it.arg = 0 THEN <<>> ELSE <<b + it.arg>>
    IN  <<fref>> \o wrap
            \o <<Ins(b + n + 2, "apply", NoFn, b + n + 1, args, <<>>, it.inl, org)>>

\* The instructions of item it, defining the values b+1, b+2, ...
ExpandItem(it, b, org) ==
    LET n == Len(it.cv)
        caps == [j \in 1..n |->
                    Ins(b + j, "op", NoFn, 0, <<>>, <<>>, IsAddressConv(it.cv[j]), org)]
        capIds == [j \in 1..n |-> b + j]
        fref == Ins(b + n + 1, "fref", it.t, 0, <<>>, <<>>, FALSE, org)
        pai == Ins(b + n + 2, "pai", NoFn, b + n + 1, capIds, it.cv, it.g, org)
        app(id, x) == Ins(id, "apply", NoFn, x, <<>>, <<>>, it.inl, org)
    IN  CASE it.sh = "direct" ->
               <<fref, app(b + n + 2, b + n + 1)>>
          [] it.sh = "pai" ->
               caps \o <<fref, pai, app(b + n + 3, b + n + 2)>>
          [] it.sh = "pai_cvte" ->
               caps \o <<fref, pai,
                         Ins(b + n + 3, "cvte", NoFn, b + n + 2, <<>>, <<>>, TRUE, org),
                         app(b + n + 4, b + n + 3)>>
          [] it.sh = "pai_cvteX" ->
               caps \o <<fref, pai,
                         Ins(b + n + 3, "cvte", NoFn, b + n + 2, <<>>, <<>>, FALSE, org),
                         app(b + n + 4, b + n + 3)>>
          [] it.sh = "pai_md" ->
               caps \o <<fref, pai,
                         Ins(b + n + 3, "md", NoFn, b + n + 2, capIds, <<>>, FALSE, org),
                         app(b + n + 4, b + n + 3)>>
          [] it.sh = "tttf" ->
               <<fref,
                 Ins(b + n + 2, "tttf", NoFn, b + n + 1, <<>>, <<>>, it.g, org),
                 app(b + n + 3, b + n + 2)>>
          [] it.sh = "cvt_tttf" ->
               <<fref,
                 Ins(b + n + 2, "cvt", NoFn, b + n + 1, <<>>, <<>>, TRUE, org),
                 Ins(b + n + 3, "tttf", NoFn, b + n + 2, <<>>, <<>>, it.g, org),
                 app(b + n + 4, b + n + 3)>>
          [] it.sh = "cvtX_tttf" ->
               <<fref,
                 Ins(b + n + 2, "cvt", NoFn, b + n + 1, <<>>, <<>>, FALSE, org),
                 Ins(b + n + 3, "tttf", NoFn, b + n + 2, <<>>, <<>>, it.g, org),
                 app(b + n + 4, b + n + 3)>>
          [] it.sh = "meth" ->
               <<Ins(b + 1, "cmeth", it.t, 0, <<>>, <<>>, it.g, org),
                 app(b + 2, b + 1)>>
          [] it.sh = "arg" ->
               <<app(b + 1, 0)>>
          [] it.sh = "chain" ->
               ExpandChain(it, b, org)
          [] OTHER -> <<>>

RECURSIVE ExpandItems(_, _, _)
ExpandItems(items, b, org) ==
    IF items = <<>> THEN <<>>
    ELSE LET first == ExpandItem(Head(items), b, org)
         IN  first \o ExpandItems(Tail(items), MaxId(first), org)

\* A definition: an instruction of its own, its call sites, the return.
BuildBody(f, items) ==
    LET mid == <<Ins(1, "op", NoFn, 0, <<>>, <<>>, FALSE, f)>> \o ExpandItems(items, 1, f)
    IN  Append(mid, Ins(MaxId(mid) + 1, "ret", NoFn, 0, <<>>, <<>>, FALSE, f))

(***************************************************************************)
(* getCalleeFunction.                                                      *)
(***************************************************************************)
\* FromCalleeTy->getExtInfo().hasContext(): the value is a thick function.
RECURSIVE HasContext(_, _)
HasContext(B, v) ==
    LET d == Def(B, v)
    IN  CASE d.k \in {"pai", "tttf"} -> TRUE
          [] d.k = "fref" -> FALSE
          [] d.k \in {"cvt", "cvte", "md"} -> HasContext(B, d.x)
          [] OTHER -> TRUE

\* A skip that takes off one mark_dependence only.
SkipOneMarkDependence(B, v) ==
    IF Def(B, v).k = "md" THEN Def(B, v).x ELSE v

RECURSIVE SkipMarkDependence(_, _)
SkipMarkDependence(B, v) ==
    IF Def(B, v).k = "md" THEN SkipMarkDependence(B, Def(B, v).x) ELSE v

\* The lambda skipFuncConvert.  g of a conversion: the source type equals
\* the destination type with its noescape bit cleared.
skipFuncConvert(B, v) ==
    LET d == Def(B, v)
    IN  CASE d.k = "cvt" -> IF HasContext(B, d.x) \/ ~d.g THEN v ELSE d.x
          [] d.k = "md" -> SkipMarkDependence(B, v)
          [] d.k = "cvte" -> IF d.g THEN d.x ELSE v
          [] OTHER -> v

\* collectPartiallyAppliedArguments: each argument with its convention.
collectPartiallyAppliedArguments(pai) ==
    [j \in 1..Len(pai.a) |-> [v |-> pai.a[j], cv |-> pai.cv[j]]]

NoCallee(load) ==
    [out |-> "none", fn |-> NoFn, thick |-> FALSE, caps |-> <<>>, pai |-> 0, load |-> load]

\* Eligibility checks that leave out the test of the must-inline flag.
CalleeEligibilityAnyFunction(F, callee, thick, caps, pai) ==
    LET load == IF body[callee] = <<>> THEN callee ELSE NoFn
    IN  IF attr[callee].repr \in {"CFunctionPointer", "ObjCMethod", "Block"}
        THEN NoCallee(NoFn)
        ELSE IF body[callee] = <<>> /\ attr[callee].def # "lazy"
        THEN NoCallee(load)
        ELSE IF attr[F].ser /\ ~attr[callee].fragInl
        THEN [NoCallee(load) EXCEPT
                 !.out = IF attr[callee].fragRef THEN "none" ELSE "fatal"]
        ELSE [out |-> "ok", fn |-> callee, thick |-> thick, caps |-> caps,
              pai |-> pai, load |-> load]

\* Eligibility checks that take every linkage not valid for fragile inlining
\* for a fatal one.
CalleeEligibilityNoFragileRef(F, callee, thick, caps, pai) ==
    LET load == IF body[callee] = <<>> THEN callee ELSE NoFn
    IN  IF attr[callee].repr \in {"CFunctionPointer", "ObjCMethod", "Block"}
        THEN NoCallee(NoFn)
        ELSE IF ~attr[callee].tr
        THEN NoCallee(NoFn)
        ELSE IF body[callee] = <<>> /\ attr[callee].def # "lazy"
        THEN NoCallee(load)
        ELSE IF attr[F].ser /\ ~attr[callee].fragInl
        THEN [NoCallee(load) EXCEPT !.out = "fatal"]
        ELSE [out |-> "ok", fn |-> callee, thick |-> thick, caps |-> caps,
              pai |-> pai, load |-> load]

\* The eligibility checks on the function the callee value names.
CalleeEligibility(F, callee, thick, caps, pai) ==
    LET load == IF body[callee] = <<>> THEN callee ELSE NoFn
    IN  IF attr[callee].repr \in {"CFunctionPointer", "ObjCMethod", "Block"}
        THEN NoCallee(NoFn)
        ELSE IF ~attr[callee].tr
        THEN NoCallee(NoFn)
        ELSE IF body[callee] = <<>> /\ attr[callee].def # "lazy"
        THEN NoCallee(load)
        ELSE IF attr[F].ser /\ ~attr[callee].fragInl
        THEN [NoCallee(load) EXCEPT
                 !.out = IF attr[callee].fragRef THEN "none" ELSE "fatal"]
        ELSE [out |-> "ok", fn |-> callee, thick |-> thick, caps |-> caps,
              pai |-> pai, load |-> load]

\* getCalleeFunction(F, AI, ...) for the apply ap of F's body B.
getCalleeFunction(F, B, ap) ==
    LET c1 == skipFuncConvert(B, ap.x)
        d1 == Def(B, c1)
        isPai == d1.k = "pai"
        thick == d1.k \in {"pai", "tttf"}
        caps == IF isPai THEN collectPartiallyAppliedArguments(d1) ELSE <<>>
        c2 == IF thick THEN d1.x ELSE c1
        c3 == skipFuncConvert(B, c2)
        fri == Def(B, c3)
    IN  IF fri.k # "fref"
        THEN NoCallee(NoFn)
        ELSE CalleeEligibility(F, fri.f, thick, caps, IF isPai THEN d1.id ELSE 0)

(***************************************************************************)
(* tryDevirtualizeApplyHelper.  tryDevirtualizeApply succeeds on an apply  *)
(* of a method value flagged devirtualisable: a new apply of a reference   *)
(* to the statically known function takes the place of the old one, which  *)
(* deleteDevirtualizedApply erases with its then unused method value.      *)
(***************************************************************************)
CanDevirtualize(B, p) ==
    B[p].k = "apply" /\ Def(B, B[p].x).k = "cmeth" /\ Def(B, B[p].x).g

tryDevirtualizeApplyHelper(B, p) ==
    IF ~CanDevirtualize(B, p) THEN B
    ELSE LET old == B[p]
             m == Def(B, old.x)
             n == MaxId(B)
             fref == Ins(n + 1, "fref", m.f, 0, <<>>, <<>>, FALSE, old.org)
             new == [old EXCEPT !.id = n + 2, !.x = n + 1]
             B1 == SubSeq(B, 1, p - 1) \o <<fref, new>> \o SubSeq(B, p + 1, Len(B))
         IN  IF Users(B1, m.id) = {} THEN Without(B1, {IndexOf(B1, m.id)}) ELSE B1

(***************************************************************************)
(* fixupReferenceCounts(I, CalleeValue, CaptureArgs, isCalleeGuaranteed),  *)
(* I the apply at position p of B.                                         *)
(***************************************************************************)
\* A test of the convention that forgets the unowned one.
NeedsIncrementUnlessGuaranteed(B, cap) ==
    /\ ~Def(B, cap.v).g
    /\ cap.cv # "Direct_Guaranteed"

NeedsIncrement(B, cap) ==
    /\ ~Def(B, cap.v).g
    /\ cap.cv # "Direct_Guaranteed"
    /\ cap.cv # "Direct_Unowned"

\* An assertion that fails for every captured argument of an address type.
MissingIndirectCopyAnyAddress(B, caps) ==
    \E j \in 1..Len(caps) : ~NeedsIncrement(B, caps[j]) /\ IsAddressConv(caps[j].cv)

\* The "Missing indirect copy" assertion fails for some captured argument.
MissingIndirectCopy(B, caps) ==
    \E j \in 1..Len(caps) : ~NeedsIncrement(B, caps[j]) /\ caps[j].cv = "Indirect_In"

RECURSIVE Increments(_, _, _, _)
Increments(B, caps, n, org) ==
    IF caps = <<>> THEN <<>>
    ELSE IF NeedsIncrement(B, Head(caps))
    THEN <<Ins(n + 1, "retain", NoFn, Head(caps).v, <<>>, <<>>, FALSE, org)>>
             \o Increments(B, Tail(caps), n + 1, org)
    ELSE Increments(B, Tail(caps), n, org)

fixupReferenceCounts(B, p, calleeValue, caps, isCalleeGuaranteed) ==
    LET incs == Increments(B, caps, MaxId(B), B[p].org)
        n == MaxId(B) + Len(incs)
        dec == IF isCalleeGuaranteed THEN <<>>
               ELSE <<Ins(n + 1, "release", NoFn, calleeValue, <<>>, <<>>, FALSE, B[p].org)>>
    IN  InsertBefore(B, p, incs \o dec)

(***************************************************************************)
(* SILInliner::inlineFunction(CalleeFunction, AI, FullArgs): the apply at  *)
(* position p of B is deleted and a copy of the callee's body CB takes its *)
(* place; the callee's return becomes the branch to the block holding the  *)
(* caller's instructions after the apply.  The values of the copy are      *)
(* renumbered past those of the caller.                                    *)
(***************************************************************************)
CloneInto(B, CB) ==
    LET off == MaxId(B)
        ren(i) == [i EXCEPT !.id = @ + off,
                            !.x = IF @ = 0 THEN 0 ELSE @ + off,
                            !.a = [j \in 1..Len(i.a) |-> i.a[j] + off]]
    IN  [j \in 1..Len(CB) |->
            IF j = Len(CB) /\ CB[j].k = "ret"
            THEN [ren(CB[j]) EXCEPT !.k = "br"]
            ELSE ren(CB[j])]

inlineFunction(B, p, CB) ==
    SubSeq(B, 1, p - 1) \o CloneInto(B, CB) \o SubSeq(B, p + 1, Len(B))

\* The last inlined instruction: the scan resumes there.
LastInlinedId(B, CB) == MaxId(B) + CB[Len(CB)].id

\* mergeBasicBlocks: the trivial branches the inliner left are merged away.
mergeBasicBlocks(B) == Without(B, {i \in 1..Len(B) : B[i].k = "br"})

(***************************************************************************)
(* ClosureCleanup.  The working set deadFunctionVals is a list of the ids  *)
(* of instructions; an id leaves it when its instruction is deleted.       *)
(***************************************************************************)
\* deadFunctionVals.insert(deadInst) for each of the values vs in turn: a
\* value already in the set keeps its place.
RECURSIVE InsertAll(_, _)
InsertAll(ws, vs) ==
    IF vs = <<>> THEN ws
    ELSE InsertAll(IF Head(vs) \in Range(ws) THEN ws ELSE Append(ws, Head(vs)),
                   Tail(vs))

\* A working set that is not told of deletions.
SelectIdsKeepAll(ws, keep) == ws

SelectIds(ws, keep) == SelectSeq(ws, LAMBDA v : v \in keep)

\* A deletion callback that records nothing.
recordDeadFunctionNothing(ws, B, deleted) == <<>>

\* recordDeadFunction(deletedInst), deletedInst an instruction of B.
recordDeadFunction(ws, B, deleted) ==
    LET rest == SelectSeq(ws, LAMBDA v : v # deleted.id)
        operands == <<deleted.x>> \o deleted.a
    IN  InsertAll(rest, SelectSeq(operands, LAMBDA v : Def(B, v).k \in FunctionKinds))

\* The users of closure c, looking through convert_escape_to_noescape.
RECURSIVE TrackedUsers(_, _)
TrackedUsers(B, c) ==
    LET direct == Users(B, c)
    IN  direct \cup
        UNION {TrackedUsers(B, B[i].id) : i \in {j \in direct : B[j].k = "cvte"}}

\* The captured-argument producers left without a use, to a fixed point.
RECURSIVE DeadProducers(_, _)
DeadProducers(B, cands) ==
    LET dead == {i \in 1..Len(B) :
                    B[i].id \in cands /\ B[i].k = "op" /\ Users(B, B[i].id) = {}}
    IN  IF dead = {} THEN B ELSE DeadProducers(Without(B, dead), cands)

\* tryDeleteDeadClosure(Closure): only reference counting may still use the
\* closure; then its users, the closure and the captured-argument producers
\* that are left unused go.
tryDeleteDeadClosure(B, c) ==
    LET users == TrackedUsers(B, c)
        ok == \A i \in users : B[i].k \in {"retain", "release", "cvte"}
        B1 == Without(B, users \cup {IndexOf(B, c)})
    IN  IF ok
        THEN [ok |-> TRUE, B |-> DeadProducers(B1, Range(Def(B, c).a))]
        ELSE [ok |-> FALSE, B |-> B]

\* recursivelyDeleteTriviallyDeadInstructions(CFI, true)
RECURSIVE recursivelyDeleteTriviallyDead(_, _)
recursivelyDeleteTriviallyDead(B, v) ==
    LET d == Def(B, v)
        B1 == Without(B, {IndexOf(B, v)})
    IN  IF d.x # 0 /\ Def(B1, d.x).k \in FunctionKinds /\ Users(B1, d.x) = {}
        THEN recursivelyDeleteTriviallyDead(B1, d.x)
        ELSE B1

\* cleanupCalleeValue(CalleeValue), CalleeValue defined by instruction v.
cleanupCalleeValue(B, v) ==
    LET d == Def(B, v)
        src == IF d.k \in {"cvt", "cvte"} THEN d.x ELSE v
        sd == Def(B, src)
        isClosure == sd.k \in {"pai", "tttf"}
        del == IF isClosure THEN tryDeleteDeadClosure(B, src) ELSE [ok |-> TRUE, B |-> B]
        B1 == del.B
        cv == IF isClosure THEN sd.x ELSE v
        cd == Def(B1, cv)
    IN  IF ~del.ok THEN B
        ELSE IF cd.k = "cvt" /\ Users(B1, cv) = {}
        THEN recursivelyDeleteTriviallyDead(B1, cv)
        ELSE IF cd.k = "fref" /\ Users(B1, cv) = {}
        THEN Without(B1, {IndexOf(B1, cv)})
        ELSE B1

\* cleanupDeadClosures(F): DeleteUpdateHandler drops from the working set
\* every instruction deleted on the way.
RECURSIVE cleanupDeadClosures(_, _)
cleanupDeadClosures(B, ws) ==
    IF ws = <<>> THEN B
    ELSE LET B1 == cleanupCalleeValue(B, Head(ws))
             live == {B1[i].id : i \in 1..Len(B1)}
         IN  cleanupDeadClosures(B1, SelectIds(Tail(ws), live))

(***************************************************************************)
(* The initial modules.                                                    *)
(***************************************************************************)
\* The sequences over S of length at most n.
RECURSIVE SeqsUpTo(_, _)
SeqsUpTo(S, n) ==
    IF n = 0 THEN {<<>>}
    ELSE LET shorter == SeqsUpTo(S, n - 1)
         IN  shorter \cup {Append(q, x) : q \in shorter, x \in S}

RECURSIVE SumLen(_, _)
SumLen(items, fs) ==
    IF fs = {} THEN 0
    ELSE LET f == CHOOSE g \in fs : TRUE
         IN  Len(items[f]) + SumLen(items, fs \ {f})

\* A body loaded from a serialized module went through this pass when that
\* module was compiled: it holds no call of a must-inline function.
LoadedBodiesCanonical(prof, items) ==
    \A f \in Funcs : prof[f].def = "lazy" =>
        \A j \in 1..Len(items[f]) : ~prof[items[f][j].t].tr

InitModule(prof, items, cleanup) ==
    /\ attr = prof
    /\ body = [f \in Funcs |->
                  IF prof[f].def = "body" THEN BuildBody(f, items[f]) ELSE <<>>]
    /\ decl = [f \in Funcs |->
                  IF prof[f].def = "lazy" THEN BuildBody(f, items[f]) ELSE <<>>]
    /\ calls0 = UNION {IF prof[f].def = "none" THEN {}
                        ELSE CallsOf(f, BuildBody(f, items[f])) : f \in Funcs}
    /\ alive = Funcs
    /\ doCleanup = cleanup
    /\ pc = "drive"
    /\ fi = 1
    /\ stack = <<>>
    /\ ret = "none"
    /\ full = {}
    /\ diags = <<>>
    /\ numInl = 0
    /\ splices = <<>>
    /\ pass = 1
    /\ snap = [body |-> <<>>, alive |-> {}, numInl |-> 0]

\* Call graphs: every function calls functions directly, MaxCalls calls in
\* all.
InitGraph ==
    \E prof \in [Funcs -> GraphProfiles] :
    \E items \in [Funcs -> SeqsUpTo({Direct(t) : t \in Funcs}, MaxCalls)] :
        /\ SumLen(items, Funcs) <= MaxCalls
        /\ InitModule(prof, items, TRUE)

\* Eligibility: a function of every kind, B, between a caller and a callee;
\* B calls on (or back, when back1), and the last may call the first or
\* itself (t3).
InitEligibility ==
    \E p1 \in {Plain, SerPlain, Transp} :
    \E p2 \in AllProfiles :
    \E p3 \in {Plain, Transp, TranspLazy, TranspPrivate} :
    \E up, inl, cleanup, back1 \in BOOLEAN :
    \E t3 \in {"none", "first", "self"} :
        LET first == IF up THEN "C" ELSE "A"
            last == IF up THEN "A" ELSE "C"
            prof == [f \in Funcs |->
                        CASE f = first -> p1 [] f = "B" -> p2 [] OTHER -> p3]
            items == [f \in Funcs |->
                         CASE f = first -> <<Item("B", "direct", <<>>, FALSE, inl)>>
                           [] f = "B" -> <<Direct(IF back1 THEN first ELSE last)>>
                           [] OTHER -> CASE t3 = "first" -> <<Direct(first)>>
                                         [] t3 = "self" -> <<Direct(last)>>
                                         [] OTHER -> <<>>]
        IN  /\ LoadedBodiesCanonical(prof, items)
            /\ InitModule(prof, items, cleanup)

\* Closures: A calls the must-inline B through a callee value of every
\* shape, a closure with at most MaxCaptures captured arguments; B calls C
\* directly.
InitClosure ==
    \E sh \in ClosureShapes \cup {"meth", "arg"} :
    \E cv \in SeqsUpTo(Convs, MaxCaptures) :
    \E g \in BOOLEAN :
    \E pc0 \in {Plain, Transp} :
        /\ sh \in {"pai", "pai_cvte", "pai_cvteX", "pai_md"} \/ cv = <<>>
        /\ InitModule([f \in Funcs |->
                          CASE f = "A" -> Plain [] f = "B" -> Transp [] OTHER -> pc0],
                      [f \in Funcs |->
                          CASE f = "A" -> <<Item("B", sh, cv, g, TRUE)>>
                            [] f = "B" -> <<Direct("C")>>
                            [] OTHER -> <<>>],
                      TRUE)

\* Linkage: the serialized A calls B directly; B has no linkage valid for
\* fragile inlining and is of every kind the resolver tells apart.
LinkageProfiles ==
    {Attr(tr, FALSE, FALSE, repr, FALSE, FALSE, fragRef, FALSE, def) :
        tr \in BOOLEAN, repr \in {"Thin", "ObjCMethod", "Block"},
        fragRef \in BOOLEAN, def \in {"body", "lazy", "none"}}

InitLinkage ==
    \E pb \in LinkageProfiles :
        InitModule([f \in Funcs |->
                       CASE f = "A" -> SerPlain [] f = "B" -> pb [] OTHER -> Plain],
                   [f \in Funcs |-> IF f = "A" THEN <<Direct("B")>> ELSE <<>>],
                   TRUE)

\* Wrapper chains: A calls the must-inline B directly, and B calls the
\* must-inline C through a chain of at most MaxWrappers wrappers of every
\* kind in every order, passing one value of the chain, or none, as an
\* argument.
InitChain ==
    \E ch \in SeqsUpTo(WrapperKinds, MaxWrappers) :
    \E arg \in 0..(MaxWrappers + 1) :
        /\ arg <= Len(ch) + 1
        /\ InitModule([f \in Funcs |-> IF f = "A" THEN Plain ELSE Transp],
                      [f \in Funcs |->
                          CASE f = "A" -> <<Direct("B")>>
                            [] f = "B" -> <<ChainItem("C", ch, FALSE, arg)>>
                            [] OTHER -> <<>>],
                      TRUE)

Init == InitGraph \/ InitEligibility \/ InitClosure \/ InitLinkage \/ InitChain

(***************************************************************************)
(* runOnFunctionRecursively.  A frame: F, the function processed; ai, the  *)
(* apply of the caller the call is made for (0 at the top level); cur,     *)
(* CurrentInliningSet; pos, the position of the scan in F's body; st, the  *)
(* position in the code; r, what getCalleeFunction returned for the apply  *)
(* at pos.                                                                 *)
(***************************************************************************)
\* A call that puts the callee in the set before the callee has checked it.
FrameAlreadyInSet(F, ai, cur) ==
    [F |-> F, ai |-> ai, cur |-> cur \cup {F}, pos |-> 0, st |-> "enter",
     r |-> NoCallee(NoFn)]

Frame(F, ai, cur) ==
    [F |-> F, ai |-> ai, cur |-> cur, pos |-> 0, st |-> "enter", r |-> NoCallee(NoFn)]

Depth == Len(stack)
Top == stack[Depth]
Pop == SubSeq(stack, 1, Depth - 1)
SetTop(fr) == [stack EXCEPT ![Depth] = fr]
TopLevel == stack[1].F

Diag(kind, fn, at) == [kind |-> kind, fn |-> fn, at |-> at, top |-> TopLevel]

Running == pc = "run" /\ stack # <<>>

Static == <<attr, decl, calls0, doCleanup, pass, snap>>

\* if (FullyInlinedSet.count(F)) return true;
EnterMemo ==
    /\ Running /\ Top.st = "enter"
    /\ Top.F \in full
    /\ stack' = Pop
    /\ ret' = "true"
    /\ UNCHANGED <<Static, body, alive, pc, fi, full, diags, numInl, splices>>

\* if (CurrentInliningSet.contains(F)) { diagnose(AI.getLoc(), ...); return false; }
CycleCheck(F, cur) == F \in cur

\* A cycle that is detected and not reported.
CycleDiagnosticsMissing(fn, at) == <<>>

\* diagnose(..., L.getStartSourceLoc(), diag::circular_transparent)
CycleDiagnostics(fn, at) == <<Diag("error", fn, at)>>

\* A cycle that is reported and returned as a success.
EnterCycleReturnsSuccess ==
    /\ Running /\ Top.st = "enter"
    /\ Top.F \notin full
    /\ Top.F \in Top.cur
    /\ diags' = diags \o <<Diag("error", stack[Depth - 1].F, Top.ai)>>
    /\ stack' = Pop
    /\ ret' = "true"
    /\ UNCHANGED <<attr, decl, calls0, doCleanup, pass, snap, body, alive, pc, fi,
                   full, numInl, splices>>

EnterCycle ==
    /\ Running /\ Top.st = "enter"
    /\ Top.F \notin full
    /\ CycleCheck(Top.F, Top.cur)
    /\ diags' = diags \o CycleDiagnostics(stack[Depth - 1].F, Top.ai)
    /\ stack' = Pop
    /\ ret' = "false"
    /\ UNCHANGED <<Static, body, alive, pc, fi, full, numInl, splices>>

\* A function taken for fully inlined as soon as its scan starts.
EnterScanMarksDone ==
    /\ Running /\ Top.st = "enter"
    /\ Top.F \notin full
    /\ Top.F \notin Top.cur
    /\ stack' = SetTop([Top EXCEPT !.cur = @ \cup {Top.F}, !.st = "scan",
                                   !.pos = Len(body[Top.F])])
    /\ full' = full \cup {Top.F}
    /\ UNCHANGED <<attr, decl, calls0, doCleanup, pass, snap, body, alive, pc, fi,
                   ret, diags, numInl, splices>>

\* CurrentInliningSet = SetFactory.add(CurrentInliningSet, F); the scan starts
\* at the last instruction of the last block.
EnterScan ==
    /\ Running /\ Top.st = "enter"
    /\ Top.F \notin full
    /\ ~CycleCheck(Top.F, Top.cur)
    /\ stack' = SetTop([Top EXCEPT !.cur = @ \cup {Top.F}, !.st = "scan",
                                   !.pos = Len(body[Top.F])])
    /\ UNCHANGED <<Static, body, alive, pc, fi, ret, full, diags, numInl, splices>>

\* A scan that stays on the apply it has just looked at.
NextPositionStuck(p) == p

\* ++II: the scan moves on from the instruction at position p.
NextPosition(p) == p - 1

\* The next FullApplySite at or before position pos, 0 if there is none.
NextApply(B, pos) ==
    LET S == {i \in 1..pos : B[i].k = "apply"}
    IN  IF S = {} THEN 0 ELSE CHOOSE i \in S : \A j \in S : j <= i

\* A scan that returns success without recording the function.
ScanDoneNotRecorded ==
    /\ Running /\ Top.st = "scan"
    /\ NextApply(body[Top.F], Top.pos) = 0
    /\ stack' = Pop
    /\ ret' = "true"
    /\ UNCHANGED <<attr, decl, calls0, doCleanup, pass, snap, body, alive, pc, fi,
                   full, diags, numInl, splices>>

\* FullyInlinedSet.insert(F); return true;
ScanDone ==
    /\ Running /\ Top.st = "scan"
    /\ NextApply(body[Top.F], Top.pos) = 0
    /\ full' = full \cup {Top.F}
    /\ stack' = Pop
    /\ ret' = "true"
    /\ UNCHANGED <<Static, body, alive, pc, fi, diags, numInl, splices>>

\* Module.loadFunction(CalleeFunction)
loadFunction(bodies, fn) ==
    IF fn # NoFn /\ attr[fn].def = "lazy" /\ bodies[fn] = <<>>
    THEN [bodies EXCEPT ![fn] = decl[fn]]
    ELSE bodies

\* One apply site up to the recursive call: the apply the scan is at, the
\* body after tryDevirtualizeApplyHelper, the position p1 of the apply in
\* it and what getCalleeFunction returns for it.
AtApply == Running /\ Top.st = "scan" /\ NextApply(body[Top.F], Top.pos) # 0

Resolved ==
    LET F == Top.F
        p == NextApply(body[F], Top.pos)
        B1 == tryDevirtualizeApplyHelper(body[F], p)
        p1 == IF CanDevirtualize(body[F], p) THEN IndexOf(B1, MaxId(B1)) ELSE p
    IN  [B1 |-> B1, p1 |-> p1, r |-> getCalleeFunction(F, B1, B1[p1])]

\* if (!CalleeFunction) continue;
ScanUnresolved ==
    /\ AtApply
    /\ Resolved.r.out = "none"
    /\ body' = loadFunction([body EXCEPT ![Top.F] = Resolved.B1], Resolved.r.load)
    /\ stack' = SetTop([Top EXCEPT !.pos = NextPosition(Resolved.p1)])
    /\ UNCHANGED <<Static, alive, pc, fi, ret, full, diags, numInl, splices>>

\* llvm_unreachable("Should never be inlining a resilient function ...")
ScanFatal ==
    /\ AtApply
    /\ Resolved.r.out = "fatal"
    /\ body' = loadFunction([body EXCEPT ![Top.F] = Resolved.B1], Resolved.r.load)
    /\ pc' = "fatal"
    /\ UNCHANGED <<Static, alive, fi, stack, ret, full, diags, numInl, splices>>

\* runOnFunctionRecursively(..., CalleeFunction, InnerAI, ...)
ScanCall ==
    /\ AtApply
    /\ Resolved.r.out = "ok"
    /\ body' = loadFunction([body EXCEPT ![Top.F] = Resolved.B1], Resolved.r.load)
    /\ stack' = Append(SetTop([Top EXCEPT !.pos = Resolved.p1, !.st = "wait",
                                          !.r = Resolved.r]),
                       Frame(Resolved.r.fn, Resolved.B1[Resolved.p1].id, Top.cur))
    /\ UNCHANGED <<Static, alive, pc, fi, ret, full, diags, numInl, splices>>

\* A note for every frame, the top-level one included.
NotesForEveryFrame(fr, callerF) == <<Diag("note", callerF, fr.ai)>>

\* The recursive call failed: a note at this frame's own apply, if it has
\* one, and the failure is returned.
NotesOnFailure(fr, callerF) ==
    IF fr.ai # 0 THEN <<Diag("note", callerF, fr.ai)>> ELSE <<>>

\* A failed recursive call taken for a successful one.
CallFailedIgnored(rv) == FALSE

\* if (!runOnFunctionRecursively(...)) ... return false;
CallFailed(rv) == rv = "false"

\* A failure path that takes the instructions spliced into F out again.
BodyRolledBack(B, F) == Without(B, {i \in 1..Len(B) : B[i].org # F})

\* What the failure path leaves of the body B of the frame's function F.
BodyOnFailure(B, F) == B

Propagate ==
    /\ Running /\ Top.st = "wait" /\ ret # "none" /\ CallFailed(ret)
    /\ diags' = diags \o NotesOnFailure(Top, IF Depth > 1 THEN stack[Depth - 1].F ELSE NoFn)
    /\ body' = [body EXCEPT ![Top.F] = BodyOnFailure(@, Top.F)]
    /\ stack' = Pop
    /\ ret' = "false"
    /\ UNCHANGED <<Static, alive, pc, fi, full, numInl, splices>>

\* if (!Inliner.canInlineApplySite(InnerAI)) continue;
NoInline ==
    /\ Running /\ Top.st = "wait" /\ ret # "none" /\ ~CallFailed(ret)
    /\ ~body[Top.F][Top.pos].g
    /\ stack' = SetTop([Top EXCEPT !.st = "scan", !.pos = NextPosition(@)])
    /\ ret' = "none"
    /\ UNCHANGED <<Static, body, alive, pc, fi, full, diags, numInl, splices>>

\* A fix-up that takes no closure for callee guaranteed.
IsCalleeGuaranteedNever(B, r) == FALSE

\* bool IsCalleeGuaranteed = PAI && PAI->getType()...->isCalleeGuaranteed();
IsCalleeGuaranteed(B, r) == r.pai # 0 /\ Def(B, r.pai).g

\* if (IsThick) fixupReferenceCounts(...): the state before the splice.
Fixup ==
    /\ Running /\ Top.st = "wait" /\ ret # "none" /\ ~CallFailed(ret)
    /\ body[Top.F][Top.pos].g
    /\ LET F == Top.F
           B == body[F]
           ap == B[Top.pos]
           B1 == IF Top.r.thick
                 THEN fixupReferenceCounts(B, Top.pos, ap.x, Top.r.caps,
                                           IsCalleeGuaranteed(B, Top.r))
                 ELSE B
       IN  /\ body' = [body EXCEPT ![F] = B1]
           /\ stack' = SetTop([Top EXCEPT !.st = "splice", !.pos = IndexOf(B1, ap.id)])
    /\ ret' = "none"
    /\ UNCHANGED <<Static, alive, pc, fi, full, diags, numInl, splices>>

\* assert(CaptureArg.second != ParameterConvention::Indirect_In): a build
\* with assertions stops here, one without goes on.
FixupAssert ==
    /\ Running /\ Top.st = "wait" /\ ret # "none" /\ ~CallFailed(ret)
    /\ body[Top.F][Top.pos].g
    /\ Top.r.thick
    /\ MissingIndirectCopy(body[Top.F], Top.r.caps)
    /\ pc' = "assert"
    /\ UNCHANGED <<Static, body, alive, fi, stack, ret, full, diags, numInl, splices>>

\* A splice after which the scan goes on below the spliced instructions
\* without visiting them.
InlineResultNoRescan(F, p, callee) ==
    LET B == body[F]
        CB == body[callee]
        B2 == inlineFunction(B, p, CB)
        ws == recordDeadFunction(<<>>, B, B[p])
        B3 == cleanupDeadClosures(B2, ws)
    IN  [B |-> B3, pos |-> IndexOf(B3, MaxId(B) + CB[1].id) - 1]

\* A splice after which the scan starts again at the end of the body.
InlineResultRestartAtEnd(F, p, callee) ==
    LET B == body[F]
        CB == body[callee]
        B2 == inlineFunction(B, p, CB)
        ws == recordDeadFunction(<<>>, B, B[p])
        B3 == cleanupDeadClosures(B2, ws)
    IN  [B |-> B3, pos |-> Len(B3)]

\* The callee spliced in and the dead closure cleaned up; the body after
\* the step and the position the scan resumes at.
InlineResult(F, p, callee) ==
    LET B == body[F]
        CB == body[callee]
        B2 == inlineFunction(B, p, CB)
        ws == recordDeadFunction(<<>>, B, B[p])
        B3 == cleanupDeadClosures(B2, ws)
    IN  [B |-> B3, pos |-> IndexOf(B3, LastInlinedId(B, CB))]

\* A splice that also merges the blocks of the top-level function, whose
\* scan is suspended.
SpliceMergingCallers ==
    /\ Running /\ Top.st = "splice"
    /\ LET F == Top.F
           res == InlineResult(F, Top.pos, Top.r.fn)
       IN  /\ body' = [body EXCEPT ![TopLevel] = mergeBasicBlocks(@), ![F] = res.B]
           /\ stack' = SetTop([Top EXCEPT !.st = "scan", !.pos = res.pos])
           /\ splices' = Append(splices,
                                [callee |-> Top.r.fn, caller |-> F,
                                 size |-> Len(body[Top.r.fn])])
    /\ numInl' = numInl + 1
    /\ UNCHANGED <<attr, decl, calls0, doCleanup, pass, snap, alive, pc, fi, ret,
                   full, diags>>

Splice ==
    /\ Running /\ Top.st = "splice"
    /\ LET F == Top.F
           res == InlineResult(F, Top.pos, Top.r.fn)
       IN  /\ body' = [body EXCEPT ![F] = res.B]
           /\ stack' = SetTop([Top EXCEPT !.st = "scan", !.pos = res.pos])
           /\ splices' = Append(splices,
                                [callee |-> Top.r.fn, caller |-> F,
                                 size |-> Len(body[Top.r.fn])])
    /\ numInl' = numInl + 1
    /\ UNCHANGED <<Static, alive, pc, fi, ret, full, diags>>

(***************************************************************************)
(* MandatoryInlining::run.                                                 *)
(***************************************************************************)
Skipped(F) == F \notin alive \/ attr[F].thunk \/ attr[F].deser

DriverSkip ==
    /\ pc = "drive" /\ fi <= Len(ModOrder)
    /\ Skipped(ModOrder[fi])
    /\ fi' = fi + 1
    /\ UNCHANGED <<Static, body, alive, pc, stack, ret, full, diags, numInl, splices>>

DriverCall ==
    /\ pc = "drive" /\ fi <= Len(ModOrder)
    /\ ~Skipped(ModOrder[fi])
    /\ stack' = <<Frame(ModOrder[fi], 0, {})>>
    /\ pc' = "run"
    /\ UNCHANGED <<Static, body, alive, fi, ret, full, diags, numInl, splices>>

\* A driver that gives up on the module when a function fails.
NextFunctionIndexOrStop(i, rv) == IF rv = "false" THEN Len(ModOrder) + 1 ELSE i + 1

\* for (auto &F : *M): the function after the one at index i, whose
\* top-level call returned rv.
NextFunctionIndex(i, rv) == i + 1

\* The top-level call returned: mergeBasicBlocks(&F), next function.
DriverReturn ==
    /\ pc = "run" /\ stack = <<>>
    /\ body' = [body EXCEPT ![ModOrder[fi]] = mergeBasicBlocks(@)]
    /\ fi' = NextFunctionIndex(fi, ret)
    /\ pc' = "drive"
    /\ ret' = "none"
    /\ UNCHANGED <<Static, alive, stack, full, diags, numInl, splices>>

DriverEnd ==
    /\ pc = "drive" /\ fi > Len(ModOrder)
    /\ pc' = IF doCleanup THEN "cleanup" ELSE "done"
    /\ fi' = 1
    /\ UNCHANGED <<Static, body, alive, stack, ret, full, diags, numInl, splices>>

\* F.getRefCount(): the function_refs to F in the functions of the module.
RefCount(F) ==
    Cardinality(UNION {{<<g, i>> : i \in {j \in 1..Len(body[g]) :
                                            body[g][j].k = "fref" /\ body[g][j].f = F}} :
                       g \in alive})

\* A cleanup scan that does not look at the use count.
ErasableWhateverItsUses(F) ==
    /\ attr[F].tr
    /\ ~attr[F].ext
    /\ attr[F].repr # "ObjCMethod"

Erasable(F) ==
    /\ RefCount(F) = 0
    /\ attr[F].tr
    /\ ~attr[F].ext
    /\ attr[F].repr # "ObjCMethod"

CleanupErase ==
    /\ pc = "cleanup" /\ fi <= Len(ModOrder)
    /\ ModOrder[fi] \in alive
    /\ Erasable(ModOrder[fi])
    /\ alive' = alive \ {ModOrder[fi]}
    /\ fi' = fi + 1
    /\ UNCHANGED <<Static, body, pc, stack, ret, full, diags, numInl, splices>>

CleanupKeep ==
    /\ pc = "cleanup" /\ fi <= Len(ModOrder)
    /\ ~(ModOrder[fi] \in alive /\ Erasable(ModOrder[fi]))
    /\ fi' = fi + 1
    /\ UNCHANGED <<Static, body, alive, pc, stack, ret, full, diags, numInl, splices>>

CleanupEnd ==
    /\ pc = "cleanup" /\ fi > Len(ModOrder)
    /\ pc' = "done"
    /\ UNCHANGED <<Static, body, alive, fi, stack, ret, full, diags, numInl, splices>>

\* The pass is run again on the module it produced.
Rerun ==
    /\ pc = "done" /\ pass = 1
    /\ pass' = pass + 1
    /\ snap' = [body |-> body, alive |-> alive, numInl |-> numInl]
    /\ pc' = "drive"
    /\ fi' = 1
    /\ full' = {}
    /\ diags' = <<>>
    /\ UNCHANGED <<attr, decl, calls0, doCleanup, body, alive, stack, ret, numInl, splices>>

Next ==
    \/ DriverSkip \/ DriverCall \/ DriverReturn \/ DriverEnd
    \/ EnterMemo \/ EnterCycle \/ EnterScan
    \/ ScanDone \/ ScanUnresolved \/ ScanFatal \/ ScanCall
    \/ Propagate \/ NoInline \/ Fixup \/ FixupAssert \/ Splice
    \/ CleanupErase \/ CleanupKeep \/ CleanupEnd
    \/ Rerun

Spec == Init /\ [][Next]_vars

(***************************************************************************)
(* The must-inline call graph of the module the pass started on.           *)
(***************************************************************************)
MustInlineEdges == {e \in calls0 : attr[e[2]].tr}

Callees(S) == {e[2] : e \in {d \in MustInlineEdges : d[1] \in S}}

RECURSIVE Grow(_, _)
Grow(S, n) == IF n = 0 THEN S ELSE Grow(S \cup Callees(S), n - 1)

\* The transitive must-inline call closure of F, F included.
Closure(F) == Grow({F}, Cardinality(Funcs))

OnCycle(g) == g \in Grow(Callees({g}), Cardinality(Funcs))

AcyclicClosure(F) == \A g \in Closure(F) : ~OnCycle(g)

\* The applies of F whose callee value is built from a must-inline function.
MustInlineSites(F) ==
    {i \in 1..Len(body[F]) :
        /\ body[F][i].k = "apply"
        /\ RefOf(body[F], body[F][i].x) # NoFn
        /\ attr[RefOf(body[F], body[F][i].x)].tr}

\* The applies of F the pass would still inline: devirtualised where
\* possible, getCalleeFunction resolves them in F and canInlineApplySite
\* accepts them.
InlinableSites(F) ==
    {i \in 1..Len(body[F]) :
        /\ body[F][i].k = "apply"
        /\ body[F][i].g
        /\ LET B1 == tryDevirtualizeApplyHelper(body[F], i)
               p1 == IF CanDevirtualize(body[F], i) THEN IndexOf(B1, MaxId(B1)) ELSE i
           IN  getCalleeFunction(F, B1, B1[p1]).out = "ok"}

Stopped == pc \in {"fatal", "assert"}

\* Both runs of the pass over the module have returned.
Returned == pc = "done" /\ pass = 2

\* No step is left to take: in every other state some action is enabled.
Halted == Returned \/ Stopped

(***************************************************************************)
(* The pass runs on its own: whatever step it can take, it takes.  This is *)
(* the weak fairness of Next, WF_vars(Next), with ENABLED <<Next>>_vars    *)
(* written as the state predicate ~Halted it is equal to.                  *)
(***************************************************************************)
FairSpec == Init /\ [][Next]_vars /\ ([]<>Halted \/ []<><<Next>>_vars)

CallEachOther(X, Y) ==
    /\ X # Y
    /\ attr[X].tr /\ attr[Y].tr
    /\ <<X, Y>> \in calls0 /\ <<Y, X>> \in calls0

\* getCalleeFunction resolves a direct call of g in F: g is eligible there.
EligibleIn(F, g) ==
    /\ attr[g].tr
    /\ attr[g].repr \notin {"CFunctionPointer", "ObjCMethod", "Block"}
    /\ attr[F].ser => attr[g].fragInl

\* X and Y call each other, each eligible in the other.
MutualPair(X, Y) ==
    CallEachOther(X, Y) /\ EligibleIn(X, Y) /\ EligibleIn(Y, X)

NumErrors == Cardinality({i \in 1..Len(diags) : diags[i].kind = "error"})

\* The functions of S that MandatoryInlining::run processes itself.
TopLevelProcessed(S) == {f \in S : ~attr[f].thunk /\ ~attr[f].deser}

(***************************************************************************)
(* C3.  As stated: a complete run over a module in which the must-inline   *)
(* functions A and B call each other reports exactly one circular-inlining *)
(* diagnostic.                                                             *)
(***************************************************************************)
C3_OneDiagnostic ==
    pc = "done" =>
        \A X, Y \in Funcs :
            MutualPair(X, Y) /\ MustInlineEdges = {<<X, Y>>, <<Y, X>>}
                => NumErrors = 1

\* C3, as the code has it: a complete run over a module whose only calls of
\* must-inline functions are those of A and B to each other, each eligible
\* in the other, reports one circular-inlining diagnostic for each of A and
\* B that the module driver processes as a top-level function: two when
\* neither is a thunk or deserialized, one when one of them is, none when
\* both are.
C3_OneDiagnosticPerTopLevel ==
    pc = "done" =>
        \A X, Y \in Funcs :
            MutualPair(X, Y) /\ MustInlineEdges = {<<X, Y>>, <<Y, X>>}
                => NumErrors = Cardinality(TopLevelProcessed({X, Y}))

\* Scenario B has run to the end with both functions processed, and with
\* one of them skipped by the driver.
C3_Witness ==
    /\ pc = "done" /\ pass = 1
    /\ \E X, Y \in Funcs :
           /\ MutualPair(X, Y) /\ MustInlineEdges = {<<X, Y>>, <<Y, X>>}
           /\ TopLevelProcessed({X, Y}) = {X, Y}
           /\ NumErrors = 2

C3_WitnessSkipped ==
    /\ pc = "done" /\ pass = 1
    /\ \E X, Y \in Funcs :
           /\ MutualPair(X, Y) /\ MustInlineEdges = {<<X, Y>>, <<Y, X>>}
           /\ TopLevelProcessed({X, Y}) = {X}
           /\ NumErrors = 1

\* Some splice put one of X, Y into the other.
SplicedBetween(X, Y) ==
    \E i \in 1..Len(splices) :
        {splices[i].callee, splices[i].caller} = {X, Y}

HasCallOf(F, g) ==
    \E i \in 1..Len(body[F]) :
        body[F][i].k = "apply" /\ RefOf(body[F], body[F][i].x) = g

(***************************************************************************)
(* C4.  As stated: after the pass over a module in which the must-inline   *)
(* functions A and B call each other, neither call has been inlined: A     *)
(* still holds its call of B and B its call of A, whichever is processed   *)
(* first.                                                                  *)
(***************************************************************************)
C4_NeitherInlined ==
    pc = "done" =>
        \A X, Y \in Funcs :
            CallEachOther(X, Y) =>
                /\ ~SplicedBetween(X, Y)
                /\ HasCallOf(X, Y) /\ HasCallOf(Y, X)

\* C4, as the code has it: the same, when each of the two calls is one
\* getCalleeFunction resolves, the callee being eligible in the caller.
C4_NeitherEligibleInlined ==
    pc = "done" =>
        \A X, Y \in Funcs :
            MutualPair(X, Y) =>
                /\ ~SplicedBetween(X, Y)
                /\ HasCallOf(X, Y) /\ HasCallOf(Y, X)

\* The pass is over, the cycle was met from either side, and something else
\* was inlined meanwhile.
C4_Witness ==
    /\ pc = "done"
    /\ \E X, Y \in Funcs :
           /\ MutualPair(X, Y)
           /\ \E i, j \in 1..Len(diags) :
                  /\ diags[i].kind = "error" /\ diags[i].top = X
                  /\ diags[j].kind = "error" /\ diags[j].top = Y
           /\ HasCallOf(X, Y) /\ HasCallOf(Y, X)

(***************************************************************************)
(* C5.  Idempotence: the second run of the pass, on the module the first   *)
(* run produced, performs no inline and leaves the module as it was: the   *)
(* same functions with the same bodies.                                    *)
(***************************************************************************)
SecondRunNoInline == numInl = snap.numInl

SecondRunSameModule ==
    /\ alive = snap.alive
    /\ \A f \in alive : body[f] = snap.body[f]

C5_Idempotent == Returned => SecondRunNoInline /\ SecondRunSameModule

(***************************************************************************)
(* The run of the driver's loop the state belongs to.                      *)
(***************************************************************************)
\* The functions of the module when the run started.
InModule == IF pass = 1 THEN Funcs ELSE snap.alive

OrderOf(f) == CHOOSE i \in 1..Len(ModOrder) : ModOrder[i] = f

\* The inlining of the top-level function T was aborted by a cycle.
AbortedAt(T) ==
    \E i \in 1..Len(diags) : diags[i].kind = "error" /\ diags[i].top = T

\* The functions after T that the driver has to process.
LaterThan(T) ==
    {L \in TopLevelProcessed(InModule) : OrderOf(L) > OrderOf(T)}

C7_NoRollback ==
    [][ret' = "false" => body' = body /\ numInl' = numInl /\ splices' = splices]_vars

\* The failure has reached the driver, and the aborted function holds
\* instructions that were spliced into it before the abort.
C7_Witness ==
    /\ pc = "run" /\ stack = <<>> /\ ret = "false" /\ pass = 1
    /\ \E i \in 1..Len(splices) : splices[i].caller = ModOrder[fi]
    /\ \E i \in 1..Len(body[ModOrder[fi]]) :
           body[ModOrder[fi]][i].org # ModOrder[fi]

(***************************************************************************)
(* The diagnostics of one cycle: the error at index i of diags and the     *)
(* notes that follow it.                                                   *)
(***************************************************************************)
NotesAfter(i) ==
    CHOOSE m \in 0..(Len(diags) - i) :
        /\ \A j \in 1..m : diags[i + j].kind = "note"
        /\ i + m = Len(diags) \/ diags[i + m + 1].kind = "error"

\* The function of the j-th diagnostic of the cycle, the error being the 0th.
ChainFn(i, j) == diags[i + j].fn

\* The apply with id at is in fn and its callee value is built from g.
CallsAt(fn, at, g) ==
    /\ fn \in Funcs
    /\ \E p \in 1..Len(body[fn]) :
           /\ body[fn][p].k = "apply" /\ body[fn][p].id = at
           /\ RefOf(body[fn], body[fn][p].x) = g

\* The unwinding of the cycle reported at index i is over.
Unwound(i) == i + NotesAfter(i) < Len(diags) \/ stack = <<>>

(***************************************************************************)
(* C8.  Each detected cycle produces exactly one primary diagnostic, at    *)
(* the apply whose callee is in CurrentInliningSet (a function of the      *)
(* chain), followed by one note at each enclosing call site up the chain:  *)
(* the j-th note is at the apply through which the function of the         *)
(* diagnostic before it was entered, and the last one is in the top-level  *)
(* function, whose own frame gets no note.                                 *)
(***************************************************************************)
C8_OneErrorAndNotesUpTheChain ==
    /\ diags # <<>> => diags[1].kind = "error"
    /\ \A i, j \in 1..Len(diags) :
           diags[i].kind = "error" /\ diags[j].kind = "error" /\ i # j
               => diags[i].top # diags[j].top
    /\ \A i \in 1..Len(diags) : diags[i].kind = "error" =>
           LET m == NotesAfter(i)
               chain == {ChainFn(i, j) : j \in 0..m}
           IN  /\ \E g \in Funcs : CallsAt(diags[i].fn, diags[i].at, g)
               /\ \A j \in 1..m :
                      /\ diags[i + j].top = diags[i].top
                      /\ CallsAt(diags[i + j].fn, diags[i + j].at, ChainFn(i, j - 1))
               /\ Unwound(i) =>
                      /\ ChainFn(i, m) = diags[i].top
                      /\ \E g \in chain : CallsAt(diags[i].fn, diags[i].at, g)
                      /\ Cardinality(chain) = m + 1

\* A cycle through three functions was reported: the error and two notes.
C8_Witness ==
    /\ pc = "done"
    /\ \E i \in 1..Len(diags) :
           /\ diags[i].kind = "error"
           /\ NotesAfter(i) = 2
           /\ diags[i + 2].fn = diags[i].top

(***************************************************************************)
(* C9.  As stated: whenever a callee is spliced into a caller, the callee  *)
(* is must-inline, is not a thunk and has a non-empty body.                *)
(***************************************************************************)
C9_SplicedMustInlineNoThunk ==
    \A i \in 1..Len(splices) :
        /\ attr[splices[i].callee].tr
        /\ ~attr[splices[i].callee].thunk
        /\ splices[i].size > 0

\* C9, as the code has it: whenever a callee is spliced into a caller, the
\* callee is must-inline and has a non-empty body, loaded if need be; a
\* must-inline thunk is spliced into its callers like any other function.
C9_SplicedMustInline ==
    \A i \in 1..Len(splices) :
        /\ attr[splices[i].callee].tr
        /\ splices[i].size > 0
        /\ body[splices[i].callee] # <<>>

\* A must-inline thunk was spliced into a caller, and so was a function
\* whose body had to be loaded.
C9_Witness ==
    /\ \E i \in 1..Len(splices) :
           attr[splices[i].callee].thunk /\ attr[splices[i].callee].tr

C9_WitnessLoaded ==
    /\ \E i \in 1..Len(splices) :
           attr[splices[i].callee].def = "lazy" /\ splices[i].size > 0

(***************************************************************************)
(* The state between fixupReferenceCounts and the splice: the apply at the *)
(* position of the top frame, and before it the instructions the fix-up    *)
(* inserted.                                                               *)
(***************************************************************************)
AfterFixup == Running /\ Top.st = "splice" /\ Top.r.thick

\* The positions of the reference-counting instructions that end right
\* before the apply at position p of B.
RunBefore(B, p) ==
    {i \in 1..(p - 1) :
        \A j \in i..(p - 1) : B[j].k \in {"retain", "release"}}

\* Passed by value, with a convention neither guaranteed nor unowned.
OwnedByValue(B, cap) ==
    /\ ~Def(B, cap.v).g
    /\ cap.cv \notin {"Direct_Guaranteed", "Direct_Unowned"}

(***************************************************************************)
(* C10.  When a thick call is inlined, exactly one increment is inserted   *)
(* before the apply for each captured argument that is passed by value and *)
(* whose convention is neither guaranteed nor unowned, and none for any    *)
(* other captured argument.  The increments stand right before the apply;  *)
(* only the decrement of the callee value, which the same fix-up inserts   *)
(* before the apply, comes between.                                        *)
(***************************************************************************)
C10_OneIncrementPerOwnedCapture ==
    AfterFixup =>
        LET B == body[Top.F]
            caps == Top.r.caps
            incs == {i \in RunBefore(B, Top.pos) : B[i].k = "retain"}
        IN  /\ \A j \in 1..Len(caps) :
                   Cardinality({i \in 1..Len(B) :
                                   B[i].k = "retain" /\ B[i].x = caps[j].v})
                       = IF OwnedByValue(B, caps[j]) THEN 1 ELSE 0
            /\ \A j \in 1..Len(caps) : OwnedByValue(B, caps[j]) =>
                   \E i \in incs : B[i].x = caps[j].v
            /\ Cardinality(incs)
                   = Cardinality({j \in 1..Len(caps) : OwnedByValue(B, caps[j])})
            /\ \A i \in incs : \A j \in RunBefore(B, Top.pos) :
                   B[j].k = "release" => i < j

\* A closure with one capture that gets an increment and one that gets none
\* is about to be inlined.
C10_Witness ==
    /\ AfterFixup
    /\ \E j, k \in 1..Len(Top.r.caps) :
           /\ OwnedByValue(body[Top.F], Top.r.caps[j])
           /\ ~OwnedByValue(body[Top.F], Top.r.caps[k])
    /\ \E i \in RunBefore(body[Top.F], Top.pos) : body[Top.F][i].k = "retain"

(***************************************************************************)
(* The closure of a thick call: the partial_apply or thin_to_thick_function*)
(* getCalleeFunction sees through for the apply ap of B, and whether its   *)
(* function type guarantees the callee for the duration of the call.       *)
(***************************************************************************)
ClosureOf(B, ap) == Def(B, skipFuncConvert(B, ap.x))

ClosureGuaranteed(B, ap) == ClosureOf(B, ap).g

\* The positions of the decrements of the callee value of the apply at p.
DecrementsOf(B, p) ==
    {i \in 1..Len(B) : B[i].k = "release" /\ B[i].x = B[p].x}

(***************************************************************************)
(* C11.  When a thick call whose closure is not callee guaranteed is       *)
(* inlined, exactly one decrement of the callee value is inserted, and it  *)
(* stands immediately after the apply, where the inlined body is followed  *)
(* by it, not before the apply.                                            *)
(***************************************************************************)
C11_OneDecrementAfterApply ==
    AfterFixup /\ ~ClosureGuaranteed(body[Top.F], body[Top.F][Top.pos]) =>
        /\ Cardinality(DecrementsOf(body[Top.F], Top.pos)) = 1
        /\ DecrementsOf(body[Top.F], Top.pos) = {Top.pos + 1}

C12_WitnessPartialApply ==
    /\ AfterFixup
    /\ ClosureOf(body[Top.F], body[Top.F][Top.pos]).k = "pai"
    /\ ClosureGuaranteed(body[Top.F], body[Top.F][Top.pos])
    /\ DecrementsOf(body[Top.F], Top.pos) = {}

(***************************************************************************)
(* The apply at position p of B is the sole use of the partial_apply c:    *)
(* c is used by the apply, by a convert_escape_to_noescape that leads to   *)
(* it and by the decrement the fix-up has put in, and by nothing else.     *)
(***************************************************************************)
SoleUse(B, c, p) ==
    /\ p \in TrackedUsers(B, c)
    /\ \A i \in TrackedUsers(B, c) \ {p} : B[i].k \in {"cvte", "release"}

\* The value v has a use in B other than as an operand of instruction c.
UsedElsewhere(B, v, c) == Users(B, v) \ {IndexOf(B, c)} # {}

\* The top frame is about to splice a call that is the sole use of its
\* partial_apply.
SplicingSoleUse ==
    /\ Running /\ Top.st = "splice" /\ Top.r.pai # 0
    /\ SoleUse(body[Top.F], Top.r.pai, Top.pos)

C14_NoDeadMustInlineLeft ==
    pc = "done" /\ doCleanup => \A F \in alive : ~Erasable(F)

(***************************************************************************)
(* The function getCalleeFunction reaches from the callee value of the     *)
(* apply ap of B, before any check of the function itself; NoFn when the   *)
(* callee value does not lead to a function_ref.                           *)
(***************************************************************************)
ReferencedFunction(B, ap) ==
    LET c1 == skipFuncConvert(B, ap.x)
        d1 == Def(B, c1)
        c2 == IF d1.k \in {"pai", "tttf"} THEN d1.x ELSE c1
        fri == Def(B, skipFuncConvert(B, c2))
    IN  IF fri.k = "fref" THEN fri.f ELSE NoFn

\* The checks before the one of the linkage: a representation that is not
\* foreign, must-inline, a body once loading was tried.
PassesEarlierChecks(callee) ==
    /\ attr[callee].repr \notin {"CFunctionPointer", "ObjCMethod", "Block"}
    /\ attr[callee].tr
    /\ body[callee] # <<>> \/ attr[callee].def = "lazy"

\* The scan stays in the same frame, on a body that still holds the apply ap.
LeftInPlace(F, ap) ==
    /\ pc' = pc
    /\ Len(stack') = Len(stack)
    /\ stack'[Len(stack')].st = "scan"
    /\ \E i \in 1..Len(body'[F]) : body'[F][i] = ap
    /\ numInl' = numInl

(***************************************************************************)
(* C15.  Resolving the callee of an apply reaches the fatal state exactly  *)
(* when the caller is serialized and the callee reached (representation    *)
(* not foreign, must-inline, body not empty after the load) has linkage    *)
(* valid neither for fragile inlining nor for fragile reference.  With     *)
(* linkage valid for fragile reference only, the callee is unresolved and  *)
(* the call stays.  A callee rejected by an earlier check never leads to   *)
(* the fatal state.                                                        *)
(***************************************************************************)
C15_FatalExactlyOnInvalidLinkage ==
    [][AtApply =>
          LET F == Top.F
              ap == Resolved.B1[Resolved.p1]
              callee == ReferencedFunction(Resolved.B1, ap)
              checked == callee # NoFn /\ PassesEarlierChecks(callee)
          IN  /\ pc' = "fatal" <=>
                     /\ checked
                     /\ attr[F].ser
                     /\ ~attr[callee].fragInl /\ ~attr[callee].fragRef
              /\ checked /\ attr[F].ser
                     /\ ~attr[callee].fragInl /\ attr[callee].fragRef
                     => LeftInPlace(F, ap)
              /\ ~checked => pc' # "fatal"]_vars

\* The pass was stopped at a call, in a serialized caller, of a must-inline
\* function with a body and no linkage valid for fragile reference.
C15_Witness ==
    /\ pc = "fatal" /\ stack # <<>>
    /\ attr[Top.F].ser
    /\ \E g \in Funcs :
           /\ HasCallOf(Top.F, g)
           /\ PassesEarlierChecks(g)
           /\ ~attr[g].fragInl /\ ~attr[g].fragRef

(***************************************************************************)
(* The live recursive call chain: the functions of the frames from the     *)
(* top-level one down to frame k.                                          *)
(***************************************************************************)
Chain(k) == {stack[i].F : i \in 1..k}

\* CurrentInliningSet of every active frame is the chain down to it; a frame
\* that has not passed its entry checks has the set its caller passed, the
\* chain down to the caller.
ChainMirrored ==
    \A k \in 1..Depth :
        stack[k].cur = Chain(IF stack[k].st = "enter" THEN k - 1 ELSE k)

\* A recursive call has just returned to the top frame.
ReturnedToCaller == Running /\ Top.st = "wait" /\ ret # "none"

(***************************************************************************)
(* C16.  As stated: CurrentInliningSet of the active frame is exactly the  *)
(* set of the functions of the live recursive call chain, and after a      *)
(* recursive call has returned, successfully or by cycle failure, the set  *)
(* of the caller does not contain the callee.                              *)
(***************************************************************************)
C16_ChainMirroredCalleeGone ==
    /\ ChainMirrored
    /\ ReturnedToCaller => Top.r.fn \notin Top.cur

\* C16, as the code has it: the same, but the callee of a call that has
\* returned is in the set of the caller when it is a function of the live
\* chain itself: the call then returned the cycle failure it detected.
C16_ChainMirroredCalleeGoneUnlessCycle ==
    /\ ChainMirrored
    /\ ReturnedToCaller =>
           /\ Top.r.fn \in Top.cur <=> Top.r.fn \in Chain(Depth)
           /\ Top.r.fn \in Top.cur => ret = "false"
           /\ ret = "true" => Top.r.fn \notin Top.cur

\* A call two frames down has returned the cycle failure: the callee is a
\* function of the chain; and a call has returned successfully.
C16_Witness ==
    /\ ReturnedToCaller /\ Depth >= 2
    /\ ret = "false"
    /\ Top.r.fn \in Top.cur
    /\ Top.cur = Chain(Depth) /\ Cardinality(Top.cur) = Depth

C16_WitnessSuccess ==
    /\ ReturnedToCaller /\ Depth >= 2
    /\ ret = "true"
    /\ Top.r.fn \notin Top.cur

(***************************************************************************)
(* The applies of F that getCalleeFunction resolves to an eligible         *)
(* must-inline function, devirtualised where possible, whether or not      *)
(* canInlineApplySite accepts them.                                        *)
(***************************************************************************)
ResolvableSites(F) ==
    {i \in 1..Len(body[F]) :
        /\ body[F][i].k = "apply"
        /\ LET B1 == tryDevirtualizeApplyHelper(body[F], i)
               p1 == IF CanDevirtualize(body[F], i) THEN IndexOf(B1, MaxId(B1)) ELSE i
           IN  getCalleeFunction(F, B1, B1[p1]).out = "ok"}

\* FullyInlinedSet changes only by the insertion that ends a complete scan
\* of the frame's function, the frame returning success, and by starting
\* empty when the pass is run again.
AddedAfterCompleteScan ==
    full' # full =>
        \/ /\ Running /\ Top.st = "scan"
           /\ NextApply(body[Top.F], Top.pos) = 0
           /\ full' = full \cup {Top.F}
           /\ ret' = "true"
           /\ body' = body
        \/ pass' # pass /\ full' = {}

C17_AddedOnlyAfterCompleteScan == [][AddedAfterCompleteScan]_vars

FunctionState(F) ==
    IF F \in full THEN "FullyProcessed"
    ELSE IF \E k \in 1..Depth : stack[k].F = F /\ stack[k].st # "enter"
    THEN "InProgress"
    ELSE "Unvisited"

\* A frame for F passes the entry checks in this step.
FrameEntered(F) ==
    /\ Running /\ Top.st = "enter" /\ Top.F = F
    /\ Len(stack') = Len(stack) /\ stack'[Len(stack')].st = "scan"

\* The frame for F returns rv in this step.
FrameReturns(F, rv) ==
    /\ Running /\ Top.st # "enter" /\ Top.F = F
    /\ stack' = Pop /\ ret' = rv

\* No frame scans the body of a function that is in FullyInlinedSet.
NeverRescanned ==
    \A k \in 1..Depth : stack[k].st # "enter" => stack[k].F \notin full

(***************************************************************************)
(* C18.  As stated: during a run of the pass every function follows the    *)
(* state machine Unvisited -> InProgress -> FullyProcessed: its state      *)
(* changes only from Unvisited to InProgress, when a frame for it is       *)
(* entered, and from InProgress to FullyProcessed, when that frame         *)
(* returns; FullyInlinedSet only grows and the body of a fully processed   *)
(* function is not scanned again.                                          *)
(***************************************************************************)
C18_StateMachine ==
    [][pass' = pass =>
          /\ full \subseteq full'
          /\ NeverRescanned
          /\ \A F \in Funcs : FunctionState(F)' # FunctionState(F) =>
                 \/ /\ FunctionState(F) = "Unvisited"
                    /\ FunctionState(F)' = "InProgress"
                    /\ FrameEntered(F)
                 \/ /\ FunctionState(F) = "InProgress"
                    /\ FunctionState(F)' = "FullyProcessed"
                    /\ \E rv \in {"true", "false"} : FrameReturns(F, rv)]_vars

\* C18, as the code has it: there is a third transition, from InProgress
\* back to Unvisited, when the frame returns the cycle failure; the frame
\* that ends in FullyProcessed returns success.  A function that went back
\* to Unvisited is scanned again when it is reached again.
C18_StateMachineWithFailure ==
    [][pass' = pass =>
          /\ full \subseteq full'
          /\ NeverRescanned
          /\ \A F \in Funcs : FunctionState(F)' # FunctionState(F) =>
                 \/ /\ FunctionState(F) = "Unvisited"
                    /\ FunctionState(F)' = "InProgress"
                    /\ FrameEntered(F)
                 \/ /\ FunctionState(F) = "InProgress"
                    /\ FunctionState(F)' = "FullyProcessed"
                    /\ FrameReturns(F, "true")
                 \/ /\ FunctionState(F) = "InProgress"
                    /\ FunctionState(F)' = "Unvisited"
                    /\ FrameReturns(F, "false")]_vars

\* A function is in progress as the top-level function after it was in
\* progress, and failed, as a callee of an earlier top-level function; and
\* another function is fully processed.
C18_Witness ==
    /\ Depth = 1 /\ pass = 1
    /\ FunctionState(TopLevel) = "InProgress"
    /\ \E i \in 1..Len(diags) :
           /\ diags[i].kind = "error"
           /\ diags[i].fn = TopLevel /\ diags[i].top # TopLevel

(***************************************************************************)
(* The instructions frame k has visited in the scan of its function: those *)
(* after the position of the scan, and the apply the frame is working on.  *)
(***************************************************************************)
Visited(k) ==
    LET fr == stack[k]
        B == body[fr.F]
    IN  CASE fr.st = "enter" -> {}
          [] fr.st = "scan" -> {B[i].id : i \in (fr.pos + 1)..Len(B)}
          [] OTHER -> {B[i].id : i \in fr.pos..Len(B)}

\* Frame k is the same call before and after the step.
SameFrame(k) ==
    /\ k <= Len(stack) /\ k <= Len(stack')
    /\ stack'[k].F = stack[k].F /\ stack'[k].ai = stack[k].ai
    /\ stack[k].st # "enter"

(***************************************************************************)
(* C19.  During the scan of one function no instruction that was visited   *)
(* before an inline is visited again after it: whatever a step does to the *)
(* body, the instructions visited so far that are still there stay behind  *)
(* the position of the scan, whether the callee spliced in has one block   *)
(* or several.                                                             *)
(***************************************************************************)
C19_NoRevisit ==
    [][\A k \in 1..Len(stack) : SameFrame(k) =>
          \A v \in Visited(k) :
              (\E i \in 1..Len(body'[stack[k].F]) : body'[stack[k].F][i].id = v)
                  => v \in Visited(k)']_vars

\* The scan has resumed at the tail of a callee of several blocks, with
\* instructions of the caller visited before the inline behind it.
C19_Witness ==
    /\ Running /\ Top.st = "scan"
    /\ Top.pos \in 1..Len(body[Top.F]) - 1
    /\ body[Top.F][Top.pos].k = "br" /\ body[Top.F][Top.pos].org # Top.F
    /\ \E j \in 1..Top.pos - 1 :
           body[Top.F][j].k = "br" /\ body[Top.F][j].org # Top.F
    /\ \E i \in Top.pos + 1..Len(body[Top.F]) :
           body[Top.F][i].org = Top.F /\ body[Top.F][i].k = "apply"

(***************************************************************************)
(* C20.  Depth first: when a callee is spliced into a caller, the callee   *)
(* is in FullyInlinedSet, its own processing having returned success; when *)
(* the recursive call for an apply has failed, the frame splices nothing   *)
(* and returns the failure, and so does every enclosing frame in turn.     *)
(***************************************************************************)
C20_CalleeFullyInlinedWhenSpliced ==
    [][/\ Running /\ Top.st = "splice" => Top.r.fn \in full
       /\ splices' # splices =>
              /\ Running /\ Top.st = "splice"
              /\ Top.r.fn \in full
              /\ splices'[Len(splices')].callee = Top.r.fn
              /\ ret = "none"
       /\ ReturnedToCaller /\ ret = "false" =>
              /\ stack' = Pop /\ ret' = "false"
              /\ splices' = splices /\ body' = body /\ full' = full]_vars

\* The first function of the module is about to have a callee spliced in
\* that, processed inside this call, had its own callee spliced in and is
\* fully inlined.
C20_Witness ==
    /\ Running /\ Top.st = "splice"
    /\ fi = 1 /\ pass = 1
    /\ Top.r.fn \in full
    /\ \E i \in 1..Len(splices) : splices[i].caller = Top.r.fn

\* A failure is on its way up through a frame that is not the top-level one.
C20_WitnessFailure ==
    /\ ReturnedToCaller /\ ret = "false" /\ Depth >= 2
    /\ Top.r.fn \notin full

(***************************************************************************)
(* The functions whose instruction list a step changes, and the frames     *)
(* below the innermost one: the suspended callers of the recursion chain.  *)
(***************************************************************************)
Mutated == {G \in Funcs : body'[G] # body[G]}

Suspended == 1..(Depth - 1)

\* Frame k is suspended at the apply its callee's frame was called for.
PositionValid(k) ==
    LET fr == stack[k]
        B == body[fr.F]
    IN  /\ fr.st = "wait"
        /\ fr.pos \in 1..Len(B)
        /\ B[fr.pos].k = "apply"
        /\ B[fr.pos].id = stack[k + 1].ai

(***************************************************************************)
(* C21.  Mutation discipline: a reference-count fix-up, a splice and the   *)
(* deletion of a dead closure change the instruction list of the function  *)
(* of the innermost frame and of no other; while a recursive call is       *)
(* active no step changes the instruction list of a caller on the chain,   *)
(* and after every step each suspended caller stands at the apply it made  *)
(* the call for.                                                           *)
(***************************************************************************)
C21_OnlyInnermostFrameMutates ==
    [][/\ Running /\ Top.st \in {"wait", "splice"} => Mutated \subseteq {Top.F}
       /\ Running => \A k \in Suspended : stack[k].F \notin Mutated
       /\ \A k \in 1..(Len(stack') - 1) : PositionValid(k)']_vars

\* A callee was spliced into the function of the second frame while the
\* top-level function, which had a callee spliced in before, is suspended
\* at its call.
C21_Witness ==
    /\ Running /\ Depth = 2 /\ pass = 1
    /\ Top.st = "scan" /\ stack[1].st = "wait"
    /\ Top.F # stack[1].F
    /\ splices # <<>> /\ splices[Len(splices)].caller = Top.F
    /\ \E i \in 1..Len(splices) : splices[i].caller = stack[1].F

\* The reference counts of a thick call were fixed up in the function of
\* the second frame, with the top-level function suspended at its call.
C21_WitnessFixup ==
    /\ AfterFixup /\ Depth = 2 /\ pass = 1
    /\ stack[1].st = "wait" /\ Top.F # stack[1].F
    /\ DecrementsOf(body[Top.F], Top.pos) # {}

(***************************************************************************)
(* The state in which fixupReferenceCounts is called: the recursive call   *)
(* has returned success, the inliner accepts the site and the call is a    *)
(* thick one.                                                              *)
(***************************************************************************)
AtFixer ==
    /\ Running /\ Top.st = "wait" /\ ret = "true"
    /\ body[Top.F][Top.pos].g
    /\ Top.r.thick

\* The captured arguments the fix-up passes over: those of an address type
\* and those of the guaranteed or the unowned convention.
PassedOver(cap) ==
    IsAddressConv(cap.cv) \/ cap.cv \in {"Direct_Guaranteed", "Direct_Unowned"}

\* The instructions of B that use value v and are no part of the closure.
OperationsOn(B, v) == {i \in Users(B, v) : B[i].k \notin {"pai", "md"}}

(***************************************************************************)
(* C24.  The fix-up flags a call exactly when one of its captured          *)
(* arguments has the indirect owned convention: the "Missing indirect      *)
(* copy" assertion fails for it and for no other convention.  Neither for  *)
(* an indirect owned argument nor for any other argument of an address     *)
(* type or of the guaranteed or unowned convention does the fix-up insert  *)
(* an increment, a copy or any other operation on the argument.            *)
(***************************************************************************)
C24_IndirectOwnedFlaggedNotCopied ==
    /\ AtFixer =>
           (MissingIndirectCopy(body[Top.F], Top.r.caps)
               <=> \E j \in 1..Len(Top.r.caps) : Top.r.caps[j].cv = "Indirect_In")
    /\ pc = "assert" =>
           \E j \in 1..Len(Top.r.caps) : Top.r.caps[j].cv = "Indirect_In"
    /\ AfterFixup =>
           \A j \in 1..Len(Top.r.caps) : PassedOver(Top.r.caps[j]) =>
               OperationsOn(body[Top.F], Top.r.caps[j].v) = {}

\* The assertion has failed for a closure that captures an indirect owned
\* argument next to an argument of another indirect convention.
C24_Witness ==
    /\ pc = "assert"
    /\ \E j, k \in 1..Len(Top.r.caps) :
           /\ Top.r.caps[j].cv = "Indirect_In"
           /\ Top.r.caps[k].cv \in {"Indirect_In_Guaranteed", "Indirect_InoutAliasable"}

\* A build without assertions went on: the indirect owned argument and the
\* unowned one got no operation, the owned one its increment.
C24_WitnessNoAssertions ==
    /\ AfterFixup
    /\ \E j \in 1..Len(Top.r.caps) :
           /\ Top.r.caps[j].cv = "Indirect_In"
           /\ OperationsOn(body[Top.F], Top.r.caps[j].v) = {}
    /\ \E j \in 1..Len(Top.r.caps) :
           /\ Top.r.caps[j].cv = "Direct_Owned"
           /\ OperationsOn(body[Top.F], Top.r.caps[j].v) # {}

\* Guaranteed and unowned arguments passed without a flag.
C24_WitnessPassed ==
    /\ AfterFixup
    /\ \E j, k \in 1..Len(Top.r.caps) :
           /\ Top.r.caps[j].cv = "Direct_Guaranteed"
           /\ Top.r.caps[k].cv = "Direct_Unowned"

(***************************************************************************)
(* C25.  No callee is inlined into a thunk: whatever the depth of the      *)
(* recursion, the function that receives a splice is not flagged as a      *)
(* thunk, also when the thunk is a must-inline function reached as the     *)
(* callee of a function that is no thunk.                                  *)
(***************************************************************************)
C25_NoSpliceIntoThunk ==
    \A i \in 1..Len(splices) : ~attr[splices[i].caller].thunk

(***************************************************************************)
(* The final cleanup.  A step erases F: F leaves the module.  The driver   *)
(* has processed F: it skipped F as a thunk or as deserialized, or the     *)
(* top-level call for F has returned, with success or aborted by a cycle.  *)
(***************************************************************************)
Erases(F) == F \in alive /\ alive' = alive \ {F}

ProcessedByDriver(F) ==
    attr[F].thunk \/ attr[F].deser \/ F \in full \/ AbortedAt(F)

\* The inlining loop is over for every function of the module.
InliningLoopOver == stack = <<>> /\ \A F \in InModule : ProcessedByDriver(F)

(***************************************************************************)
(* C26.  The final cleanup erases no function that is still needed: a step *)
(* that takes a function out of the module is a step of the cleanup scan   *)
(* on the function it examines, whose use count is zero at that moment and *)
(* which is must-inline, not possibly used externally and no Objective-C   *)
(* method; the scan runs only when the inlining loop is over for every     *)
(* function of the module, and with cleanup disabled no function is ever   *)
(* erased.                                                                 *)
(***************************************************************************)
C26_ErasedOnlyWhenUnused ==
    /\ [](pc = "cleanup" => doCleanup /\ InliningLoopOver)
    /\ [](~doCleanup => alive = Funcs)
    /\ [][alive' # alive =>
              /\ pc = "cleanup" /\ doCleanup
              /\ \E F \in alive :
                     /\ Erases(F)
                     /\ F = ModOrder[fi]
                     /\ RefCount(F) = 0
                     /\ attr[F].tr
                     /\ ~attr[F].ext
                     /\ attr[F].repr # "ObjCMethod"]_vars

\* The scan has erased an unused must-inline function and has kept one
\* that is must-inline and not used externally because it is still used.
C26_Witness ==
    /\ pc = "cleanup" /\ pass = 1
    /\ alive # Funcs
    /\ \E i \in 1..(fi - 1) :
           /\ ModOrder[i] \in alive
           /\ attr[ModOrder[i]].tr /\ ~attr[ModOrder[i]].ext
           /\ attr[ModOrder[i]].repr # "ObjCMethod"
           /\ RefCount(ModOrder[i]) > 0

\* A run with cleanup disabled has ended with an unused must-inline
\* function in the module.
C26_WitnessDisabled ==
    /\ pc = "done" /\ ~doCleanup
    /\ \E F \in alive : Erasable(F)

(***************************************************************************)
(* The dead closure cleanup of the splice the top frame is about to make.  *)
(* AfterInline: the body as the inliner leaves it, the apply deleted, and  *)
(* the working set recordDeadFunction has built from that deletion.        *)
(* CleanupVisits: the calls of cleanupCalleeValue the loop of              *)
(* cleanupDeadClosures makes, each with the entry v it is made on and the  *)
(* body B at that moment.                                                  *)
(***************************************************************************)
SplicePending == Running /\ Top.st = "splice"

AfterInline ==
    LET B == body[Top.F]
    IN  [B |-> inlineFunction(B, Top.pos, body[Top.r.fn]),
         ws |-> recordDeadFunction(<<>>, B, B[Top.pos]),
         apply |-> B[Top.pos].id]

RECURSIVE CleanupVisits(_, _)
CleanupVisits(B, ws) ==
    IF ws = <<>> THEN <<>>
    ELSE LET B1 == cleanupCalleeValue(B, Head(ws))
             live == {B1[i].id : i \in 1..Len(B1)}
         IN  <<[v |-> Head(ws), B |-> B]>>
                 \o CleanupVisits(B1, SelectIds(Tail(ws), live))

\* The body the visits leave.
AfterVisits(B, visits) ==
    IF visits = <<>> THEN B
    ELSE cleanupCalleeValue(visits[Len(visits)].B, visits[Len(visits)].v)

(***************************************************************************)
(* C22.  The dead closure cleanup never visits a deleted instruction: the  *)
(* apply the inliner deleted is not in the working set, every call of      *)
(* cleanupCalleeValue is made on an instruction that is in the body at     *)
(* that moment, whatever the calls before it have deleted, themselves or   *)
(* through tryDeleteDeadClosure and                                        *)
(* recursivelyDeleteTriviallyDeadInstructions, and the body these calls    *)
(* leave is the body of the function after the step.                       *)
(***************************************************************************)
C22_CleanupVisitsLiveOnly ==
    [][SplicePending =>
          LET ai == AfterInline
              visits == CleanupVisits(ai.B, ai.ws)
          IN  /\ ai.apply \notin Range(ai.ws)
              /\ \A i \in 1..Len(visits) : Def(visits[i].B, visits[i].v) # NoIns
              /\ \A i \in 1..Len(visits) : visits[i].v \in Range(ai.ws)
              /\ body'[Top.F] = AfterVisits(ai.B, visits)]_vars

\* The working set of the pending splice holds two instructions, and the
\* visit of the first deletes the second: the loop makes one call.
C22_Witness ==
    /\ SplicePending
    /\ Len(AfterInline.ws) = 2
    /\ Len(CleanupVisits(AfterInline.B, AfterInline.ws)) = 1
    /\ Def(AfterVisits(AfterInline.B, CleanupVisits(AfterInline.B, AfterInline.ws)),
           AfterInline.ws[2]) = NoIns

\* Both instructions of the working set are visited: the first visit
\* deleted nothing the set tracks.
C22_WitnessBothVisited ==
    /\ SplicePending
    /\ Len(AfterInline.ws) = 2
    /\ Len(CleanupVisits(AfterInline.B, AfterInline.ws)) = 2

(***************************************************************************)
(* The chain of wrappers of a callee value v of B: the kinds of the        *)
(* instructions from v down to the first that is no wrapper, the outermost *)
(* first, and that last instruction.                                       *)
(***************************************************************************)
RECURSIVE ChainKinds(_, _)
ChainKinds(B, v) ==
    LET d == Def(B, v)
    IN  IF d.k \in WrapperKinds THEN <<d.k>> \o ChainKinds(B, d.x) ELSE <<>>

RECURSIVE ChainEnd(_, _)
ChainEnd(B, v) ==
    LET d == Def(B, v)
    IN  IF d.k \in WrapperKinds THEN ChainEnd(B, d.x) ELSE d

\* Every conversion of the chain changes nothing but the noescape bit.
RECURSIVE NoOpConversions(_, _)
NoOpConversions(B, v) ==
    LET d == Def(B, v)
    IN  IF d.k \notin WrapperKinds THEN TRUE
        ELSE (d.k \in {"cvt", "cvte"} => d.g) /\ NoOpConversions(B, d.x)

NumClosures(ks) == Cardinality({i \in 1..Len(ks) : ks[i] \in {"pai", "tttf"}})

\* The applies of F the claim is about: the callee value is a chain of
\* no-op wrappers on a function_ref of a function eligible in F.
ChainSites(F) ==
    {i \in 1..Len(body[F]) :
        /\ body[F][i].k = "apply"
        /\ ChainEnd(body[F], body[F][i].x).k = "fref"
        /\ NoOpConversions(body[F], body[F][i].x)
        /\ CalleeEligibility(F, ChainEnd(body[F], body[F][i].x).f,
                             FALSE, <<>>, 0).out = "ok"}

ResolvedAt(F, i) == getCalleeFunction(F, body[F], body[F][i]).out = "ok"

(***************************************************************************)
(* What one application of the wrapper skip takes off a chain: nothing, a  *)
(* run of mark_dependence, one convert_escape_to_noescape, or one          *)
(* convert_function of a value without context (rest: the chain below it). *)
(***************************************************************************)
IsMarkDependenceRun(s) == s # <<>> /\ \A i \in 1..Len(s) : s[i] = "md"

OneSkip(s, rest) ==
    \/ s = <<>>
    \/ IsMarkDependenceRun(s)
    \/ s = <<"cvte">>
    \/ s = <<"cvt">> /\ NumClosures(rest) = 0

\* The chains the resolver sees through: one skip, at most one
\* partial_apply or thin_to_thick_function, one skip.
SeenThrough(ks) ==
    \E i \in 0..Len(ks) : \E j \in {i, i + 1} :
        /\ j <= Len(ks)
        /\ j = i + 1 => ks[j] \in {"pai", "tttf"}
        /\ OneSkip(SubSeq(ks, 1, i), SubSeq(ks, i + 1, Len(ks)))
        /\ OneSkip(SubSeq(ks, j + 1, Len(ks)), SubSeq(ks, j + 2, Len(ks)))

C23_WitnessUnresolved ==
    /\ Running /\ Top.st = "scan"
    /\ \E i \in (Top.pos + 1)..Len(body[Top.F]) :
           /\ i \in ChainSites(Top.F)
           /\ ChainKinds(body[Top.F], body[Top.F][i].x) = <<"md", "cvte", "pai">>

====
